---- MODULE Spec2Model ----
(***************************************************************************)
(* A model of qsub(command, pbs_array_data, **kwargs) of src/qsub.py: the  *)
(* resolution of the output path, the creation of the output directory,    *)
(* the local run of the subjobs, and the shuffling, chunking and           *)
(* submission of the PBS array jobs together with the index lookup that    *)
(* the generated job script performs on the compute node.                  *)
(*                                                                         *)
(* Python strings are sequences of one-character strings, Python lists are *)
(* sequences (position j of Python is position j+1 here), and a scalar of  *)
(* an argument tuple is a tagged record (an int or a str).  The keyword    *)
(* arguments that only fill in #PBS directives (N, P, q, select, ncpus,    *)
(* mem, walltime) and `cd` do not influence any of the modelled state and  *)
(* are left out.                                                           *)
(***************************************************************************)
EXTENDS Integers, Sequences, FiniteSets, TLC

VARIABLES
    calls,        \* number of calls of qsub(..) made so far
    pc,           \* position inside the running call
    dirs,         \* file system: the paths that are directories
    files,        \* file system: the paths that are regular files
    command,      \* argument `command`
    data,         \* argument `pbs_array_data`, as passed by the caller
    kwpath,       \* kwargs: [given |-> 'path' in kwargs, val |-> kwargs['path']]
    local,        \* kwargs.get('local', False)
    path,         \* local variable `path` (lines 72-76)
    made,         \* what line 78 did: "none", "skipped", "created", "failed"
    invocations,  \* the os.system(..) calls of the local loop (lines 82-86)
    shuffled,     \* `pbs_array_data` after line 89
    chunks,       \* `pbs_array_data_chunks` (lines 93-96)
    submissions,  \* the os.system('qsub ...') calls (line 114)
    err           \* the exception that ended the call, "" if none

vars == << calls, pc, dirs, files, command, data, kwpath, local, path, made,
           invocations, shuffled, chunks, submissions, err >>

----------------------------------------------------------------------------
(* Bounds of the model *)

MaxCalls == 2      \* calls of qsub(..) in one run
MaxSmallLen == 3   \* longest pbs_array_data explored with every shuffle
MaxChunks == 2     \* long pbs_array_data reach MaxChunks full chunks (+2)

(* Program constant: PBS array jobs are limited to 1000 subjobs *)
ChunkSize == 1000

----------------------------------------------------------------------------
(* Strings and scalars *)

Sep == "/"                                   \* os.sep
JobName == << "j", "o", "b" >>               \* the literal 'job'

IntVal(n) == [t |-> "int", n |-> n, s |-> << >>]
StrVal(s) == [t |-> "str", n |-> 0, s |-> s]

Digit(d) == CASE d = 0 -> "0" [] d = 1 -> "1" [] d = 2 -> "2" [] d = 3 -> "3"
              [] d = 4 -> "4" [] d = 5 -> "5" [] d = 6 -> "6" [] d = 7 -> "7"
              [] d = 8 -> "8" [] d = 9 -> "9"

RECURSIVE NatStr(_)
NatStr(n) == IF n < 10 THEN << Digit(n) >>
             ELSE NatStr(n \div 10) \o << Digit(n % 10) >>

\* str(v) for an element v of an argument tuple
Str(v) == IF v.t = "int"
          THEN (IF v.n < 0 THEN << "-" >> \o NatStr(0 - v.n) ELSE NatStr(v.n))
          ELSE v.s

\* ' '.join(strs)
RECURSIVE Join(_)
Join(strs) == IF Len(strs) = 0 THEN << >>
              ELSE IF Len(strs) = 1 THEN strs[1]
              ELSE strs[1] \o << " " >> \o Join(Tail(strs))

\* ' '.join(map(str, pbs_array_args))
StrArgs(args) == Join([j \in 1..Len(args) |-> Str(args[j])])

\* command.replace(' ', '_')
ReplaceSpaces(s) == [j \in 1..Len(s) |-> IF s[j] = " " THEN "_" ELSE s[j]]

----------------------------------------------------------------------------
(* Lines 72-76: the output path *)

\* variant: the separator is appended without looking at the last character
ResolvePathAlwaysAppends(cmd, kw) ==
    IF kw.given THEN kw.val \o << Sep >> ELSE ReplaceSpaces(cmd) \o << Sep >>

ResolvePath(cmd, kw) ==
    IF kw.given
    THEN (IF Len(kw.val) > 0 /\ kw.val[Len(kw.val)] # Sep
          THEN kw.val \o << Sep >>
          ELSE kw.val)
    ELSE ReplaceSpaces(cmd) \o << Sep >>

\* path+'job'
JobDir(p) == p \o JobName

(* Line 78: os.path.isdir and os.makedirs on the modelled file system *)

\* variant: the test of line 78 is dropped, os.makedirs is always called
IsDirNever(p) == FALSE

IsDir(p) == p \in dirs

\* the proper ancestors of p: its prefixes that end before a separator
Ancestors(p) == { SubSeq(p, 1, j - 1) : j \in { k \in 2..Len(p) : p[k] = Sep } }

\* os.makedirs(p) raises when p exists or when an ancestor is a regular file
MakedirsFails(p) == p \in dirs \/ p \in files \/ Ancestors(p) \cap files # {}

----------------------------------------------------------------------------
(* Lines 80-86: the command line of one local subjob *)

CommandLine(cmd, args, p) == cmd \o << " " >> \o StrArgs(args) \o << " " >> \o p

\* variant: the local loop runs over the list back to front
LocalOrderReversed(d) == [j \in 1..Len(d) |-> d[Len(d) + 1 - j]]

\* the order in which the local loop visits pbs_array_data
LocalOrder(d) == d

----------------------------------------------------------------------------
(* Line 89: random.sample(pbs_array_data, len(pbs_array_data)) *)

Min(a, b) == IF a < b THEN a ELSE b

AllPerms(n) == { p \in [1..n -> 1..n] : \A i, j \in 1..n : p[i] = p[j] => i = j }

\* For a long list only a family of permutations is explored: the identity,
\* the reversal, the rotation by one and the exchange of the two ends.
SomePerms(n) ==
    { [i \in 1..n |-> i],
      [i \in 1..n |-> n + 1 - i],
      [i \in 1..n |-> (i % n) + 1],
      [i \in 1..n |-> IF i = 1 THEN n ELSE IF i = n THEN 1 ELSE i] }

Shuffles(n) == IF n <= MaxSmallLen THEN AllPerms(n) ELSE SomePerms(n)

\* variant: sampling with replacement, every draw is the same element
SampleWithReplacement(d, p) == [i \in 1..Len(d) |-> d[p[1]]]

Sample(d, p) == [i \in 1..Len(d) |-> d[p[i]]]

----------------------------------------------------------------------------
(* Lines 93-96: the chunks *)

\* len(range(0, n, 1000))
RangeLen(n) == (n + ChunkSize - 1) \div ChunkSize

\* [pbs_array_data[x:x+1000] for x in range(0, len(pbs_array_data), 1000)]
Split(d) == [c \in 1..RangeLen(Len(d)) |->
                SubSeq(d, (c - 1) * ChunkSize + 1, Min(c * ChunkSize, Len(d)))]

\* the condition of line 95; pbs_array_data_chunks[-1] of an empty list raises
LastRaises(cs) == Len(cs) = 0
NeedsMerge(cs) == Len(cs[Len(cs)]) = 1
\* pbs_array_data_chunks[-2] of a one-element list raises
MergeRaises(cs) == Len(cs) < 2

\* lines 95-96 raise IndexError
SplitRaises(cs) == IF LastRaises(cs) THEN TRUE
                   ELSE IF NeedsMerge(cs) THEN MergeRaises(cs)
                   ELSE FALSE

\* variant: the popped tuple is not put into the last chunk
MergeDropsMoved(cs) ==
    [c \in 1..Len(cs) |->
        IF c = Len(cs) - 1 THEN SubSeq(cs[c], 1, Len(cs[c]) - 1) ELSE cs[c]]

\* variant: the popped tuple is appended to the last chunk
MergeAppends(cs) ==
    [c \in 1..Len(cs) |->
        IF c = Len(cs) - 1 THEN SubSeq(cs[c], 1, Len(cs[c]) - 1)
        ELSE IF c = Len(cs)
             THEN cs[c] \o << cs[Len(cs) - 1][Len(cs[Len(cs) - 1])] >>
        ELSE cs[c]]

\* variant: the tuple is popped from the first chunk
MergePopsFirstChunk(cs) ==
    LET n == Len(cs)
        moved == cs[1][Len(cs[1])]
    IN  [c \in 1..n |->
            IF c = n THEN << moved >> \o cs[n]
            ELSE IF c = 1 THEN SubSeq(cs[1], 1, Len(cs[1]) - 1)
            ELSE cs[c]]

\* pbs_array_data_chunks[-1].insert(0, pbs_array_data_chunks[-2].pop())
Merge(cs) ==
    LET n == Len(cs)
        prev == cs[n - 1]
        moved == prev[Len(prev)]
    IN  [c \in 1..n |->
            IF c = n - 1 THEN SubSeq(prev, 1, Len(prev) - 1)
            ELSE IF c = n THEN << moved >> \o cs[n]
            ELSE cs[c]]

----------------------------------------------------------------------------
(* Lines 97-114: one submission, and the lookup of the job script *)

\* 1000*i, for the chunk at Python position i
Base(i) == ChunkSize * i

\* variant: the upper end of the range misses the -1
JRangeTooLong(i, chunk) == << Base(i), Base(i) + Len(chunk) >>

\* #PBS -J {1000*i}-{1000*i + len(pbs_array_data_chunk)-1}
JRange(i, chunk) == << Base(i), Base(i) + Len(chunk) - 1 >>

Submission(i, chunk, cmd, p) ==
    [J |-> JRange(i, chunk), chunk |-> chunk, base |-> Base(i),
     command |-> cmd, path |-> p]

\* Python's list[j]: a negative j counts from the end
PyIndex(list, j) == IF j >= 0 THEN list[j + 1] ELSE list[Len(list) + j + 1]

\* variant: the base of the chunk is not subtracted
ScriptPosNoBase(sub, k) == k

\* {pbs_array_data_chunk}[int(sys.argv[1])-{1000*i}] with $PBS_ARRAY_INDEX = k
ScriptPos(sub, k) == k - sub.base
ScriptArgs(sub, k) == PyIndex(sub.chunk, ScriptPos(sub, k))

\* {command} ${args[*]} {path} on the compute node
ScriptLine(sub, k) == CommandLine(sub.command, ScriptArgs(sub, k), sub.path)

----------------------------------------------------------------------------
(* The inputs *)

TupleChoices == { << StrVal(<< "a" >>), IntVal(1) >>,
                  << StrVal(<< "b" >>), IntVal(2) >> }

RECURSIVE SeqsUpTo(_, _)
SeqsUpTo(S, n) == IF n = 0 THEN { << >> }
                  ELSE LET shorter == SeqsUpTo(S, n - 1)
                       IN  shorter \cup { Append(s, x) : s \in shorter, x \in S }

SmallData == SeqsUpTo(TupleChoices, MaxSmallLen)

\* a long list in which tuples repeat
LongList(n) == [j \in 1..n |->
                  << StrVal(<< IF j % 2 = 0 THEN "a" ELSE "b" >>),
                     IntVal((j \div 3) % 5) >>]

LongSizes == { ChunkSize * m + d : m \in 1..MaxChunks, d \in {-1, 0, 1, 2} }
LongData == { LongList(n) : n \in LongSizes }

Commands == { << "r" >>, << "r", " ", "x" >> }

NoPath == [given |-> FALSE, val |-> << >>]
PathChoices == { NoPath,
                 [given |-> TRUE, val |-> << >>],
                 [given |-> TRUE, val |-> << "o" >>],
                 [given |-> TRUE, val |-> << "o", Sep >>] }

\* Short lists are passed with every command, path and mode; the long lists
\* are passed in remote mode with one command and one supplied path.
SmallInputs == [command : Commands, kwpath : PathChoices, local : BOOLEAN,
                data : SmallData]
LongInputs == [command : { << "r" >> },
               kwpath : { [given |-> TRUE, val |-> << "o" >>] },
               local : { FALSE }, data : LongData]

----------------------------------------------------------------------------
(* The state machine *)

Init ==
    /\ calls = 0
    /\ pc = "idle"
    /\ dirs = {}
    /\ files \in { {}, { << "o", Sep, "j", "o", "b" >> } }
    /\ command = << >>
    /\ data = << >>
    /\ kwpath = NoPath
    /\ local = FALSE
    /\ path = << >>
    /\ made = "none"
    /\ invocations = << >>
    /\ shuffled = << >>
    /\ chunks = << >>
    /\ submissions = << >>
    /\ err = ""

\* qsub(command, pbs_array_data, **kwargs) is called; lines 72-76 run
Call ==
    /\ pc = "idle"
    /\ calls < MaxCalls
    /\ \E in \in SmallInputs \cup LongInputs :
            /\ command' = in.command
            /\ kwpath' = in.kwpath
            /\ local' = in.local
            /\ data' = in.data
            /\ path' = ResolvePath(in.command, in.kwpath)
    /\ calls' = calls + 1
    /\ pc' = "mkdir"
    /\ UNCHANGED << dirs, files, made, invocations, shuffled, chunks,
                    submissions, err >>

\* line 78, the directory is there: nothing is created
SkipMakedirs ==
    /\ pc = "mkdir"
    /\ IsDir(JobDir(path))
    /\ made' = "skipped"
    /\ pc' = IF local THEN "local" ELSE "shuffle"
    /\ UNCHANGED << calls, dirs, files, command, data, kwpath, local, path,
                    invocations, shuffled, chunks, submissions, err >>

\* line 78, the directory is absent: os.makedirs creates it and its ancestors
Makedirs ==
    /\ pc = "mkdir"
    /\ ~ IsDir(JobDir(path))
    /\ ~ MakedirsFails(JobDir(path))
    /\ dirs' = dirs \cup { JobDir(path) } \cup Ancestors(JobDir(path))
    /\ made' = "created"
    /\ pc' = IF local THEN "local" ELSE "shuffle"
    /\ UNCHANGED << calls, files, command, data, kwpath, local, path,
                    invocations, shuffled, chunks, submissions, err >>

\* line 78, os.makedirs raises: the exception leaves qsub
MakedirsError ==
    /\ pc = "mkdir"
    /\ ~ IsDir(JobDir(path))
    /\ MakedirsFails(JobDir(path))
    /\ made' = "failed"
    /\ err' = "FileExistsError"
    /\ pc' = "error"
    /\ UNCHANGED << calls, dirs, files, command, data, kwpath, local, path,
                    invocations, shuffled, chunks, submissions >>

\* lines 80-86: one turn of the local loop
RunLocal ==
    /\ pc = "local"
    /\ Len(invocations) < Len(data)
    /\ invocations' = Append(invocations,
           CommandLine(command, LocalOrder(data)[Len(invocations) + 1], path))
    /\ UNCHANGED << calls, pc, dirs, files, command, data, kwpath, local, path,
                    made, shuffled, chunks, submissions, err >>

\* line 87: return
ReturnLocal ==
    /\ pc = "local"
    /\ Len(invocations) = Len(data)
    /\ pc' = "done"
    /\ UNCHANGED << calls, dirs, files, command, data, kwpath, local, path,
                    made, invocations, shuffled, chunks, submissions, err >>

\* line 89
Shuffle ==
    /\ pc = "shuffle"
    /\ \E p \in Shuffles(Len(data)) : shuffled' = Sample(data, p)
    /\ pc' = "split"
    /\ UNCHANGED << calls, dirs, files, command, data, kwpath, local, path,
                    made, invocations, chunks, submissions, err >>

\* lines 93-96, no exception
SplitChunks ==
    /\ pc = "split"
    /\ LET cs == Split(shuffled)
       IN  /\ ~ SplitRaises(cs)
           /\ chunks' = IF NeedsMerge(cs) THEN Merge(cs) ELSE cs
    /\ pc' = "submit"
    /\ UNCHANGED << calls, dirs, files, command, data, kwpath, local, path,
                    made, invocations, shuffled, submissions, err >>

\* line 95 raises IndexError: the list of chunks is empty, or its only
\* chunk has one element and there is no second-to-last chunk
SplitError ==
    /\ pc = "split"
    /\ LET cs == Split(shuffled)
       IN  /\ SplitRaises(cs)
           /\ chunks' = cs
    /\ err' = "IndexError"
    /\ pc' = "error"
    /\ UNCHANGED << calls, dirs, files, command, data, kwpath, local, path,
                    made, invocations, shuffled, submissions >>

\* lines 97-114: one turn of the submission loop
Submit ==
    /\ pc = "submit"
    /\ Len(submissions) < Len(chunks)
    /\ LET i == Len(submissions)
       IN  submissions' = Append(submissions,
                                 Submission(i, chunks[i + 1], command, path))
    /\ UNCHANGED << calls, pc, dirs, files, command, data, kwpath, local, path,
                    made, invocations, shuffled, chunks, err >>

\* the submission loop ends and qsub returns
ReturnRemote ==
    /\ pc = "submit"
    /\ Len(submissions) = Len(chunks)
    /\ pc' = "done"
    /\ UNCHANGED << calls, dirs, files, command, data, kwpath, local, path,
                    made, invocations, shuffled, chunks, submissions, err >>

\* the caller goes on after qsub returned: the locals of the call are gone
Continue ==
    /\ pc = "done"
    /\ pc' = "idle"
    /\ command' = << >>
    /\ data' = << >>
    /\ kwpath' = NoPath
    /\ local' = FALSE
    /\ path' = << >>
    /\ made' = "none"
    /\ invocations' = << >>
    /\ shuffled' = << >>
    /\ chunks' = << >>
    /\ submissions' = << >>
    /\ UNCHANGED << calls, dirs, files, err >>

Next ==
    \/ Call
    \/ SkipMakedirs
    \/ Makedirs
    \/ MakedirsError
    \/ RunLocal
    \/ ReturnLocal
    \/ Shuffle
    \/ SplitChunks
    \/ SplitError
    \/ Submit
    \/ ReturnRemote
    \/ Continue

Spec == Init /\ [][Next]_vars

----------------------------------------------------------------------------
(* Vocabulary of the properties *)

NumTuples == Len(data)

\* a remote call that got past line 78
InRemote == /\ pc \in { "shuffle", "split", "submit", "done", "error" }
            /\ ~ local
            /\ made \in { "skipped", "created" }

\* ... and has ended, by returning or by an exception of lines 89-114
RemoteEnded == InRemote /\ pc \in { "done", "error" }

\* a local call that got past line 78
InLocal == pc \in { "local", "done" } /\ local

RECURSIVE FlatTo(_, _)
FlatTo(ss, n) == IF n = 0 THEN << >> ELSE FlatTo(ss, n - 1) \o ss[n]
Flat(ss) == FlatTo(ss, Len(ss))

RECURSIVE SumLenTo(_, _)
SumLenTo(ss, n) == IF n = 0 THEN 0 ELSE SumLenTo(ss, n - 1) + Len(ss[n])
SumLen(ss) == SumLenTo(ss, Len(ss))

Elems(s) == { s[j] : j \in 1..Len(s) }
Count(s, v) == Cardinality({ j \in 1..Len(s) : s[j] = v })
SameBag(s, t) == \A v \in Elems(s) \cup Elems(t) : Count(s, v) = Count(t, v)

\* the tuple lists embedded in the job scripts submitted so far
EmittedChunks == [i \in 1..Len(submissions) |-> submissions[i].chunk]

\* the least m with 1000*m >= n
CeilDiv(n) == CHOOSE m \in 0..n : 1000 * m >= n /\ (m = 0 \/ 1000 * (m - 1) < n)

\* the naive split would leave a last chunk of one tuple behind a full one
MergeCase(n) == n > 1000 /\ n % 1000 = 1

EndsWithSep(s) == Len(s) > 0 /\ s[Len(s)] = Sep

\* s ends with the characters of t
HasSuffix(s, t) == /\ Len(s) >= Len(t)
                   /\ SubSeq(s, Len(s) - Len(t) + 1, Len(s)) = t

----------------------------------------------------------------------------
(* C1 *)

\* C1, as claimed: when a remote call with a non-empty pbs_array_data has
\* ended, the tuples embedded in the submitted chunks are, as a multiset,
\* the tuples that were passed in.
C1_EveryNonEmptyInputEmitted ==
    (RemoteEnded /\ NumTuples >= 1) => SameBag(Flat(EmittedChunks), data)

\* C1, amended: the multiset equality holds for every input of two or more
\* tuples, whatever the shuffle; with one tuple the call ends without any
\* submission.
C1_TuplesPreservedFromTwo ==
    /\ (RemoteEnded /\ NumTuples >= 2) =>
           /\ pc = "done"
           /\ SameBag(Flat(EmittedChunks), data)
           /\ Len(Flat(EmittedChunks)) = NumTuples
    /\ (RemoteEnded /\ NumTuples = 1) => submissions = << >>

C1_Witness ==
    /\ RemoteEnded /\ pc = "done"
    /\ NumTuples = 1001
    /\ shuffled # data
    /\ Len(submissions) = 2

----------------------------------------------------------------------------
(* C2 *)

\* C2: in a remote call with two or more tuples every submitted chunk has
\* two or more tuples (and so has its -J range), and when the call has
\* returned the lengths of the submitted chunks add up to the number of
\* tuples.
C2_ChunkLengths ==
    (InRemote /\ NumTuples >= 2) =>
        /\ \A i \in 1..Len(submissions) :
              /\ Len(submissions[i].chunk) >= 2
              /\ submissions[i].J[2] - submissions[i].J[1] + 1 >= 2
        /\ pc # "error"
        /\ pc = "done" => SumLen(EmittedChunks) = NumTuples

C2_Witness ==
    /\ InRemote /\ pc = "done"
    /\ NumTuples = 1001
    /\ Len(submissions[1].chunk) = 999
    /\ Len(submissions[2].chunk) = 2

----------------------------------------------------------------------------
(* C3 *)

\* C3, as claimed: the -J ranges of successive submissions are contiguous,
\* each starts one past the end of the one before.
C3_RangesContiguous ==
    InRemote =>
        \A i \in 1..(Len(submissions) - 1) :
            submissions[i + 1].J[1] = submissions[i].J[2] + 1

\* C3, amended: the -J ranges are [1000*i, 1000*i + len - 1], pairwise
\* disjoint and increasing in emission order; each starts one past the end
\* of the one before, except that after the chunk shortened by the
\* final-chunk merge the index 1000*i + 999 is left out, so the last range
\* starts two past the end of the second-to-last.
C3_RangesDisjointGapAtMerge ==
    InRemote =>
        /\ \A i \in 1..Len(submissions) :
              /\ submissions[i].J[1] = 1000 * (i - 1)
              /\ submissions[i].J[2] = 1000 * (i - 1) + Len(chunks[i]) - 1
              /\ submissions[i].J[1] <= submissions[i].J[2]
        /\ \A i, j \in 1..Len(submissions) :
              i < j => submissions[i].J[2] < submissions[j].J[1]
        /\ \A i \in 1..(Len(submissions) - 1) :
              submissions[i + 1].J[1] - submissions[i].J[2] =
                  IF MergeCase(NumTuples) /\ i = Len(chunks) - 1 THEN 2 ELSE 1

C3_Witness ==
    /\ InRemote /\ pc = "done"
    /\ NumTuples = 2001
    /\ Len(submissions) = 3
    /\ submissions[2].J = << 1000, 1998 >>
    /\ submissions[3].J = << 2000, 2001 >>

----------------------------------------------------------------------------
(* C4 *)

\* what the job script of submission i selects for the indices of its -J
\* range, in the order of the indices
Selected(i) ==
    LET sub == submissions[i]
    IN  [j \in 1..(sub.J[2] - sub.J[1] + 1) |-> ScriptArgs(sub, sub.J[1] + j - 1)]

\* every index of every -J range is mapped to position k - 1000*i, inside
\* the embedded list
LookupInBounds ==
    \A i \in 1..Len(submissions) :
        \A k \in submissions[i].J[1]..submissions[i].J[2] :
            /\ ScriptPos(submissions[i], k) = k - 1000 * (i - 1)
            /\ ScriptPos(submissions[i], k) >= 0
            /\ ScriptPos(submissions[i], k) < Len(submissions[i].chunk)

\* C4, as claimed: in bounds, and when the remote call has ended the pairs
\* (submission, index), taken in order, select the tuples of the shuffled
\* sequence one by one.
C4_EveryTupleSelectedOnce ==
    InRemote =>
        /\ LookupInBounds
        /\ RemoteEnded =>
              Flat([i \in 1..Len(submissions) |-> Selected(i)]) = shuffled

\* C4, amended: the same for every input of two or more tuples (and for the
\* empty one); with one tuple there is no submission and the tuple is
\* selected by no pair.
C4_LookupFromTwo ==
    InRemote =>
        /\ LookupInBounds
        /\ (RemoteEnded /\ NumTuples # 1) =>
              Flat([i \in 1..Len(submissions) |-> Selected(i)]) = shuffled
        /\ (RemoteEnded /\ NumTuples = 1) => submissions = << >>

C4_Witness ==
    /\ RemoteEnded /\ pc = "done"
    /\ NumTuples = 2001
    /\ ScriptPos(submissions[3], 2001) = 1
    /\ ScriptArgs(submissions[3], 2000) = shuffled[2000]
    /\ ScriptArgs(submissions[2], 1998) = shuffled[1999]
    /\ shuffled[1999] # shuffled[2000]

----------------------------------------------------------------------------
(* C5 *)

\* the lengths the claim gives to the chunks of n tuples: blocks of 1000
\* and the rest, or 1000, .., 1000, 999, 2 in the merge case
ClaimedLength(n, c) ==
    IF MergeCase(n)
    THEN (IF c = CeilDiv(n) THEN 2 ELSE IF c = CeilDiv(n) - 1 THEN 999 ELSE 1000)
    ELSE (IF c = CeilDiv(n) THEN n - 1000 * (c - 1) ELSE 1000)

\* C5, as claimed: a remote call that has ended made ceil(N/1000)
\* submissions.
C5_CeilSubmissions ==
    RemoteEnded => Len(submissions) = CeilDiv(NumTuples)

\* C5, amended: for two or more tuples a remote call makes ceil(N/1000)
\* submissions, one per chunk, with the lengths 1000, .., 1000, 999, 2 when
\* N = 1000*m + 1 (m >= 1) and with the chunks of the naive split otherwise;
\* for one tuple it makes none.
C5_SubmissionsFromTwo ==
    /\ (RemoteEnded /\ NumTuples >= 2) =>
          /\ Len(submissions) = CeilDiv(NumTuples)
          /\ Len(chunks) = Len(submissions)
          /\ \A c \in 1..Len(submissions) :
                /\ submissions[c].chunk = chunks[c]
                /\ Len(chunks[c]) = ClaimedLength(NumTuples, c)
                /\ ~ MergeCase(NumTuples) =>
                      chunks[c] = SubSeq(shuffled, 1000 * (c - 1) + 1,
                                         Min(1000 * c, NumTuples))
    /\ (RemoteEnded /\ NumTuples = 1) => Len(submissions) = 0

C5_Witness ==
    /\ RemoteEnded
    /\ NumTuples = 2001
    /\ Len(submissions) = 3
    /\ Len(submissions[1].chunk) = 1000
    /\ Len(submissions[2].chunk) = 999
    /\ Len(submissions[3].chunk) = 2

----------------------------------------------------------------------------
(* C6 *)

\* C6: a local call runs one command per tuple, in the order of
\* pbs_array_data as passed in, each being the command, the values of the
\* tuple as strings and the output path, separated by spaces; nothing is
\* shuffled, chunked or submitted; it returns when every tuple has run.
C6_LocalRuns ==
    InLocal =>
        /\ Len(invocations) <= NumTuples
        /\ \A j \in 1..Len(invocations) :
              invocations[j] =
                  command \o << " " >>
                    \o Str(data[j][1]) \o << " " >> \o Str(data[j][2])
                    \o << " " >> \o path
        /\ shuffled = << >>
        /\ chunks = << >>
        /\ submissions = << >>
        /\ err = ""
        /\ pc = "done" => Len(invocations) = NumTuples

C6_Witness ==
    /\ InLocal /\ pc = "done"
    /\ data = << << StrVal(<< "a" >>), IntVal(1) >>,
                 << StrVal(<< "b" >>), IntVal(2) >> >>
    /\ invocations = << << "r", " ", "a", " ", "1", " ", "o", "/" >>,
                        << "r", " ", "b", " ", "2", " ", "o", "/" >> >>

----------------------------------------------------------------------------
(* C7 *)

\* what is true of `path` in every call: it names the directory that line
\* 78 looks for and creates, and it ends every command line
PathUsedEverywhere ==
    /\ made = "created" => JobDir(path) \in dirs
    /\ made = "skipped" => JobDir(path) \in dirs
    /\ \A j \in 1..Len(invocations) : HasSuffix(invocations[j], << " " >> \o path)
    /\ \A i \in 1..Len(submissions) :
          /\ submissions[i].path = path
          /\ HasSuffix(ScriptLine(submissions[i], submissions[i].J[1]),
                       << " " >> \o path)

\* C7, as claimed: a supplied path that does not end with the separator
\* gets one appended, a supplied path that ends with it is used as it is.
C7_SeparatorAppended ==
    (pc # "idle" /\ kwpath.given) =>
        /\ ~ EndsWithSep(kwpath.val) => path = kwpath.val \o << Sep >>
        /\ EndsWithSep(kwpath.val) => path = kwpath.val
        /\ EndsWithSep(path)
        /\ PathUsedEverywhere

\* C7, amended: a supplied non-empty path that does not end with the
\* separator gets one appended, a supplied path that ends with it is used
\* as it is, and a supplied empty path stays empty; the resulting path is
\* the one used for the directory and for every command line.
C7_SeparatorAppendedUnlessEmpty ==
    (pc # "idle" /\ kwpath.given) =>
        /\ (kwpath.val # << >> /\ ~ EndsWithSep(kwpath.val)) =>
              path = kwpath.val \o << Sep >>
        /\ EndsWithSep(kwpath.val) => path = kwpath.val
        /\ kwpath.val = << >> => path = << >>
        /\ kwpath.val # << >> => EndsWithSep(path)
        /\ PathUsedEverywhere

C7_Witness ==
    /\ pc = "done" /\ kwpath.given
    /\ kwpath.val = << "o" >>
    /\ path = << "o", "/" >>
    /\ made = "created"
    /\ << "o", "/", "j", "o", "b" >> \in dirs
    /\ Len(invocations) = 1

----------------------------------------------------------------------------
(* C8 *)

\* C8: when path+'job' is a directory at line 78, the call does not raise
\* there, calls no os.makedirs and leaves the file system alone; the
\* directory is created only when it is absent; and no command is run and
\* nothing is submitted before the directory is there.
C8_IdempotentMakedirs ==
    /\ [][ (pc = "mkdir" /\ JobDir(path) \in dirs) =>
               /\ pc' \in { "local", "shuffle" }
               /\ made' = "skipped"
               /\ err' = err
               /\ dirs' = dirs /\ files' = files ]_vars
    /\ [][ dirs' # dirs =>
               /\ pc = "mkdir"
               /\ JobDir(path) \notin dirs
               /\ JobDir(path) \in dirs'
               /\ made' = "created" ]_vars
    /\ [][ (invocations' # invocations \/ submissions' # submissions) =>
               (pc = "idle" \/ JobDir(path) \in dirs) ]_vars
    /\ [](pc \in { "idle", "mkdir" } => (invocations = << >> /\ submissions = << >>))

C8_Witness ==
    /\ calls = 2
    /\ made = "skipped"
    /\ pc = "done"
    /\ Len(submissions) >= 1

----------------------------------------------------------------------------
(* C9 *)

\* the exceptions that would count as a validation error
ValidationErrors == { "ValueError", "ValidationError" }

\* C9: a remote call with exactly one tuple ends with a validation error
\* and submits nothing.
C9_SingleTupleRejected ==
    (RemoteEnded /\ NumTuples = 1) =>
        /\ pc = "error"
        /\ err \in ValidationErrors
        /\ submissions = << >>

----------------------------------------------------------------------------
(* C10 *)

\* C10: in a remote call with two or more tuples every chunk has at most
\* 1000 tuples, the chunks put one after the other are the shuffled
\* sequence, the chunks submitted so far are its beginning, and in the merge
\* case the last chunk starts with the tuple that the naive split had at the
\* end of the second-to-last block.
C10_ChunksInOrder ==
    (InRemote /\ NumTuples >= 2 /\ pc \in { "submit", "done" }) =>
        /\ \A c \in 1..Len(chunks) : Len(chunks[c]) <= 1000
        /\ Flat(chunks) = shuffled
        /\ Flat(EmittedChunks) = SubSeq(shuffled, 1, SumLen(EmittedChunks))
        /\ \A i \in 1..Len(submissions) : submissions[i].chunk = chunks[i]
        /\ pc = "done" => Len(submissions) = Len(chunks)
        /\ MergeCase(NumTuples) =>
              /\ chunks[Len(chunks)][1] = shuffled[NumTuples - 1]
              /\ chunks[Len(chunks)][2] = shuffled[NumTuples]
              /\ chunks[Len(chunks) - 1][999] = shuffled[NumTuples - 2]

C10_Witness ==
    /\ InRemote /\ pc = "done"
    /\ NumTuples = 1001
    /\ shuffled # data
    /\ chunks[2][1] = shuffled[1000]
    /\ chunks[2][1] # chunks[2][2]

====
